---- MODULE Spec2Model ----
(***************************************************************************)
(* Model of glam's SSE2 quaternion (src/src/f32/quat_sse2.rs).             *)
(*                                                                         *)
(* A __m128 register is a function from lane index 0..3 to a scalar.       *)
(* Memory (slices, arrays) is a 1-based sequence of scalars; a pointer is  *)
(* the address of its first element modulo 16 together with the memory.    *)
(* Scalars are integers: every operation of the file is a polynomial in    *)
(* its inputs, so the lane algebra is modelled in exact arithmetic         *)
(* (rounding, NaN and infinities of f32 are outside the model).            *)
(* Typed values are records [ty, val] so that Quat, Vec4, Vec3, arrays and *)
(* tuples stay distinct types as they are in the source.                   *)
(***************************************************************************)
EXTENDS Integers, Sequences, FiniteSets, TLC

\* ------------------------------------------------------------------ bounds
MaxNormSq == 2      \* input quaternions/vectors have squared norm <= this
MaxLen    == 5      \* longest caller slice

\* ------------------------------------------------------- SSE2 intrinsics
Reg(e0, e1, e2, e3) ==
    [i \in 0..3 |-> IF i = 0 THEN e0 ELSE IF i = 1 THEN e1
                    ELSE IF i = 2 THEN e2 ELSE e3]

\* _mm_set_ps takes its arguments from the highest lane down to lane 0.
mm_set_ps(e3, e2, e1, e0) == Reg(e0, e1, e2, e3)

\* _mm_shuffle_ps(a, b, imm8): lanes 0,1 select from a, lanes 2,3 from b,
\* each by a 2-bit field of the immediate.
mm_shuffle_ps(a, b, imm) ==
    Reg(a[imm % 4], a[(imm \div 4) % 4], b[(imm \div 16) % 4], b[(imm \div 64) % 4])

mm_mul_ps(a, b) == [i \in 0..3 |-> a[i] * b[i]]

mm_add_ps(a, b) == [i \in 0..3 |-> a[i] + b[i]]

\* _mm_loadu_ps(ptr): four consecutive floats, no alignment requirement.
mm_loadu_ps(addr, mem) == Reg(mem[1], mem[2], mem[3], mem[4])

\* _mm_storeu_ps(ptr, a): overwrites the four floats at ptr, keeps the rest.
mm_storeu_ps(addr, mem, a) ==
    [i \in 1..Len(mem) |-> IF i <= 4 THEN a[i - 1] ELSE mem[i]]

\* _mm_store_ps(ptr, a): as storeu, for a 16-byte aligned ptr; its only
\* callers store into Align16 scratch, which is so aligned.
mm_store_ps(mem, a) ==
    [i \in 1..Len(mem) |-> IF i <= 4 THEN a[i - 1] ELSE mem[i]]

\* --------------------------------------------------------- typed values
Quat(m)    == [ty |-> "Quat",  val |-> m]
Vec4(m)    == [ty |-> "Vec4",  val |-> m]
Vec3(x, y, z) == [ty |-> "Vec3", val |-> <<x, y, z>>]
Array4(a)  == [ty |-> "Array", val |-> a]
Tuple4(t)  == [ty |-> "Tuple", val |-> t]
Unit       == [ty |-> "Unit",  val |-> 0]
NoValue    == [ty |-> "None",  val |-> 0]

\* MaybeUninit<Align16<T>>: 16 bytes of scratch at a 16-byte aligned
\* address; the contents before the store are indeterminate.
UninitScratch(junk) == <<junk, junk, junk, junk>>

\* ------------------------------------------- collaborators (Vec3, Vec4)
Vec3_splat(s) == Vec3(s, s, s)

Vec3_dot(a, b) == a.val[1] * b.val[1] + a.val[2] * b.val[2] + a.val[3] * b.val[3]

Vec3_cross(a, b) ==
    Vec3(a.val[2] * b.val[3] - a.val[3] * b.val[2],
         a.val[3] * b.val[1] - a.val[1] * b.val[3],
         a.val[1] * b.val[2] - a.val[2] * b.val[1])

Vec3_mul(a, b) == Vec3(a.val[1] * b.val[1], a.val[2] * b.val[2], a.val[3] * b.val[3])

Vec3_add(a, b) == Vec3(a.val[1] + b.val[1], a.val[2] + b.val[2], a.val[3] + b.val[3])

Vec3_sub(a, b) == Vec3(a.val[1] - b.val[1], a.val[2] - b.val[2], a.val[3] - b.val[3])

\* f32 * Vec3
f32_mul_Vec3(s, a) == Vec3(s * a.val[1], s * a.val[2], s * a.val[3])

Vec4_dup_w(v) == Vec4(mm_shuffle_ps(v.val, v.val, 255))

Vec4_truncate(v) == Vec3(v.val[0], v.val[1], v.val[2])

\* Quat::is_normalized: the squared length is 1.
is_normalized(q) ==
    q.val[0] * q.val[0] + q.val[1] * q.val[1]
        + q.val[2] * q.val[2] + q.val[3] * q.val[3] = 1

\* glam_assert!(cond): an assert! when the assertion feature is compiled
\* in, nothing otherwise.  TRUE iff the macro panics.
glam_assert_panics(enabled, cond) == enabled /\ ~cond

\* ------------------------------------------------------------ impl Quat
new(x, y, z, w) == Quat(mm_set_ps(w, z, y, x))

\* mutant: the arguments of _mm_set_ps given lowest lane first
identity_x_first == Quat(mm_set_ps(0, 0, 0, 1))

identity == Quat(mm_set_ps(1, 0, 0, 0))

Ok(v)  == [status |-> "ok", ret |-> v]
Panic  == [status |-> "panic", ret |-> NoValue]

\* mutant: an aligned load (_mm_load_ps), which faults off a 16-byte boundary
from_slice_aligned_load(addr, slice, assertions) ==
    IF ~(Len(slice) >= 4) THEN Panic
    ELSE IF addr % 16 # 0 THEN [status |-> "fault", ret |-> NoValue]
    ELSE LET q == Quat(mm_loadu_ps(addr, slice))
         IN  IF glam_assert_panics(assertions, is_normalized(q)) THEN Panic
             ELSE Ok(q)

\* mutant: assert! in place of glam_assert!
from_slice_assert_always(addr, slice, assertions) ==
    IF ~(Len(slice) >= 4) THEN Panic
    ELSE LET q == Quat(mm_loadu_ps(addr, slice))
         IN  IF ~is_normalized(q) THEN Panic ELSE Ok(q)

from_slice_unaligned(addr, slice, assertions) ==
    IF ~(Len(slice) >= 4) THEN Panic
    ELSE LET q == Quat(mm_loadu_ps(addr, slice))
         IN  IF glam_assert_panics(assertions, is_normalized(q)) THEN Panic
             ELSE Ok(q)

\* mutant: the length check off by one, the store clipped to the slice
write_to_slice_short_check(self, addr, slice) ==
    IF ~(Len(slice) >= 3)
    THEN [status |-> "panic", ret |-> NoValue, slice |-> slice]
    ELSE [status |-> "ok", ret |-> Unit,
          slice |-> mm_storeu_ps(addr, slice, self.val)]

\* mutant: the length check demands exactly four elements
write_to_slice_exact_len(self, addr, slice) ==
    IF ~(Len(slice) = 4)
    THEN [status |-> "panic", ret |-> NoValue, slice |-> slice]
    ELSE [status |-> "ok", ret |-> Unit,
          slice |-> mm_storeu_ps(addr, slice, self.val)]

\* The result carries the slice as the call leaves it.
write_to_slice_unaligned(self, addr, slice) ==
    IF ~(Len(slice) >= 4)
    THEN [status |-> "panic", ret |-> NoValue, slice |-> slice]
    ELSE [status |-> "ok", ret |-> Unit,
          slice |-> mm_storeu_ps(addr, slice, self.val)]

\* mutant: one sign of CONTROL_WZYX flipped
mul_quat_wrong_sign(self, rhs0) ==
    LET lhs == self.val
        rhs == rhs0.val
        CONTROL_WZYX == Reg(1, 1, 1, -1)
        CONTROL_ZWXY == Reg(1, 1, -1, -1)
        CONTROL_YXWZ == Reg(-1, 1, 1, -1)
        r_xxxx == mm_shuffle_ps(lhs, lhs, 0)
        r_yyyy == mm_shuffle_ps(lhs, lhs, 85)
        r_zzzz == mm_shuffle_ps(lhs, lhs, 170)
        r_wwww == mm_shuffle_ps(lhs, lhs, 255)
        l_wzyx == mm_shuffle_ps(rhs, rhs, 27)
        l_zwxy == mm_shuffle_ps(l_wzyx, l_wzyx, 177)
        l_yxwz == mm_shuffle_ps(l_zwxy, l_zwxy, 27)
        result0 == mm_add_ps(mm_mul_ps(r_wwww, rhs),
                             mm_mul_ps(mm_mul_ps(r_xxxx, l_wzyx), CONTROL_WZYX))
        result1 == mm_add_ps(mm_mul_ps(mm_mul_ps(r_yyyy, l_zwxy), CONTROL_ZWXY),
                             mm_mul_ps(mm_mul_ps(r_zzzz, l_yxwz), CONTROL_YXWZ))
    IN  Quat(mm_add_ps(result0, result1))

\* mutant: the operands exchanged (rhs * self)
mul_quat_swapped(self, rhs0) ==
    LET lhs == rhs0.val
        rhs == self.val
        CONTROL_WZYX == Reg(1, -1, 1, -1)
        CONTROL_ZWXY == Reg(1, 1, -1, -1)
        CONTROL_YXWZ == Reg(-1, 1, 1, -1)
        r_xxxx == mm_shuffle_ps(lhs, lhs, 0)
        r_yyyy == mm_shuffle_ps(lhs, lhs, 85)
        r_zzzz == mm_shuffle_ps(lhs, lhs, 170)
        r_wwww == mm_shuffle_ps(lhs, lhs, 255)
        l_wzyx == mm_shuffle_ps(rhs, rhs, 27)
        l_zwxy == mm_shuffle_ps(l_wzyx, l_wzyx, 177)
        l_yxwz == mm_shuffle_ps(l_zwxy, l_zwxy, 27)
        result0 == mm_add_ps(mm_mul_ps(r_wwww, rhs),
                             mm_mul_ps(mm_mul_ps(r_xxxx, l_wzyx), CONTROL_WZYX))
        result1 == mm_add_ps(mm_mul_ps(mm_mul_ps(r_yyyy, l_zwxy), CONTROL_ZWXY),
                             mm_mul_ps(mm_mul_ps(r_zzzz, l_yxwz), CONTROL_YXWZ))
    IN  Quat(mm_add_ps(result0, result1))

mul_quat(self, rhs0) ==
    LET lhs == self.val
        rhs == rhs0.val
        CONTROL_WZYX == Reg(1, -1, 1, -1)
        CONTROL_ZWXY == Reg(1, 1, -1, -1)
        CONTROL_YXWZ == Reg(-1, 1, 1, -1)
        r_xxxx == mm_shuffle_ps(lhs, lhs, 0)       \* 0b00_00_00_00
        r_yyyy == mm_shuffle_ps(lhs, lhs, 85)      \* 0b01_01_01_01
        r_zzzz == mm_shuffle_ps(lhs, lhs, 170)     \* 0b10_10_10_10
        r_wwww == mm_shuffle_ps(lhs, lhs, 255)     \* 0b11_11_11_11
        lxrw_lyrw_lzrw_lwrw == mm_mul_ps(r_wwww, rhs)
        l_wzyx == mm_shuffle_ps(rhs, rhs, 27)      \* 0b00_01_10_11
        lwrx_lzrx_lyrx_lxrx == mm_mul_ps(r_xxxx, l_wzyx)
        l_zwxy == mm_shuffle_ps(l_wzyx, l_wzyx, 177)   \* 0b10_11_00_01
        lwrx_nlzrx_lyrx_nlxrx == mm_mul_ps(lwrx_lzrx_lyrx_lxrx, CONTROL_WZYX)
        lzry_lwry_lxry_lyry == mm_mul_ps(r_yyyy, l_zwxy)
        l_yxwz == mm_shuffle_ps(l_zwxy, l_zwxy, 27)    \* 0b00_01_10_11
        lzry_lwry_nlxry_nlyry == mm_mul_ps(lzry_lwry_lxry_lyry, CONTROL_ZWXY)
        lyrz_lxrz_lwrz_lzrz == mm_mul_ps(r_zzzz, l_yxwz)
        result0 == mm_add_ps(lxrw_lyrw_lzrw_lwrw, lwrx_nlzrx_lyrx_nlxrx)
        nlyrz_lxrz_lwrz_wlzrz == mm_mul_ps(lyrz_lxrz_lwrz_lzrz, CONTROL_YXWZ)
        result1 == mm_add_ps(lzry_lwry_nlxry_nlyry, nlyrz_lxrz_lwrz_wlzrz)
    IN  Quat(mm_add_ps(result0, result1))

Quat_into_Vec4(q) == Vec4(q.val)

Vec4_into_Quat(v) == Quat(v.val)

\* mutant: the cross term not doubled
mul_vec3_cross_not_doubled(self, rhs) ==
    LET q   == Quat_into_Vec4(self)
        ww  == Vec4_truncate(Vec4_dup_w(q))
        two == Vec3_splat(2)
        b   == Vec4_truncate(q)
        b2  == Vec3_splat(Vec3_dot(b, b))
    IN  Vec3_add(Vec3_add(Vec3_mul(rhs, Vec3_sub(Vec3_mul(ww, ww), b2)),
                          Vec3_mul(b, f32_mul_Vec3(Vec3_dot(rhs, b), two))),
                 Vec3_mul(Vec3_cross(b, rhs), ww))

\* mutant: the vector part used where the broadcast w belongs
mul_vec3_w_from_xyz(self, rhs) ==
    LET q   == Quat_into_Vec4(self)
        ww  == Vec4_truncate(q)
        two == Vec3_splat(2)
        b   == Vec4_truncate(q)
        b2  == Vec3_splat(Vec3_dot(b, b))
    IN  Vec3_add(Vec3_add(Vec3_mul(rhs, Vec3_sub(Vec3_mul(ww, ww), b2)),
                          Vec3_mul(b, f32_mul_Vec3(Vec3_dot(rhs, b), two))),
                 Vec3_mul(Vec3_cross(b, rhs), Vec3_mul(ww, two)))

mul_vec3(self, rhs) ==
    LET q   == Quat_into_Vec4(self)
        ww  == Vec4_truncate(Vec4_dup_w(q))
        two == Vec3_splat(2)
        b   == Vec4_truncate(q)
        b2  == Vec3_splat(Vec3_dot(b, b))
    IN  Vec3_add(Vec3_add(Vec3_mul(rhs, Vec3_sub(Vec3_mul(ww, ww), b2)),
                          Vec3_mul(b, f32_mul_Vec3(Vec3_dot(rhs, b), two))),
                 Vec3_mul(Vec3_cross(b, rhs), Vec3_mul(ww, two)))

\* From<Quat> for (f32, f32, f32, f32): an aligned store into scratch that is
\* then read as the tuple; field i of a tuple of four f32 is the i-th float.
Quat_into_tuple(v, junk) ==
    LET out == mm_store_ps(UninitScratch(junk), v.val)
    IN  Tuple4([f0 |-> out[1], f1 |-> out[2], f2 |-> out[3], f3 |-> out[4]])

\* From<(f32, f32, f32, f32)> for Quat
tuple_into_Quat(t) == new(t.val.f0, t.val.f1, t.val.f2, t.val.f3)

\* mutant: built with _mm_set_ps(a[0], a[1], a[2], a[3]), lanes reversed
array_into_Quat_set_ps(a, addr) ==
    Quat(mm_set_ps(a.val[1], a.val[2], a.val[3], a.val[4]))

\* From<[f32; 4]> for Quat
array_into_Quat(a, addr) == Quat(mm_loadu_ps(addr, a.val))

\* From<Quat> for [f32; 4]
Quat_into_array(v, junk) ==
    Array4(mm_store_ps(UninitScratch(junk), v.val))

\* ------------------------------------------------------- caller's inputs
Coord == {c \in -MaxNormSq..MaxNormSq : c * c <= MaxNormSq}

\* four scalars (x, y, z, w) handed to Quat::new
ScalarArgs ==
    {s \in Coord \X Coord \X Coord \X Coord :
        s[1] * s[1] + s[2] * s[2] + s[3] * s[3] + s[4] * s[4] <= MaxNormSq}

Vecs ==
    {Vec3(s[1], s[2], s[3]) : s \in
        {t \in Coord \X Coord \X Coord :
            t[1] * t[1] + t[2] * t[2] + t[3] * t[3] <= MaxNormSq}}

SliceElems == {0, 1}

Slices == UNION {[1..n -> SliceElems] : n \in 0..MaxLen}

\* &[f32] is 4-byte aligned; its address modulo 16
SliceAddrs == {0, 4, 8, 12}

\* ------------------------------------------------------------------ state
VARIABLES
    glam_assert,   \* build: is the glam_assert! feature compiled in
    q,             \* the caller's quaternion (NoValue before construction)
    vec,           \* the caller's Vec3
    slice,         \* the caller's &mut [f32]
    slice_addr,    \* slice.as_ptr() modulo 16
    chain,         \* the quaternions composed into q, leftmost first
    op,            \* the last call
    args,          \* its arguments
    ret,           \* its return value
    status         \* "ok", or "panic" once a call has panicked

vars == <<glam_assert, q, vec, slice, slice_addr, chain, op, args, ret, status>>

Init ==
    /\ glam_assert \in BOOLEAN
    /\ slice \in Slices
    /\ slice_addr \in SliceAddrs
    /\ q = NoValue
    /\ vec = Vec3(0, 0, 0)
    /\ chain = <<>>
    /\ op = "start"
    /\ args = <<>>
    /\ ret = NoValue
    /\ status = "ok"

InitAlgebra ==
    /\ glam_assert = FALSE
    /\ slice = <<>>
    /\ slice_addr = 0
    /\ q = NoValue
    /\ vec \in Vecs
    /\ chain = <<>>
    /\ op = "start"
    /\ args = <<>>
    /\ ret = NoValue
    /\ status = "ok"

Constructed == op \in {"new", "identity"}

\* let q = Quat::new(x, y, z, w);
New ==
    /\ status = "ok" /\ op = "start"
    /\ \E s \in ScalarArgs :
        /\ q' = new(s[1], s[2], s[3], s[4])
        /\ args' = s
    /\ ret' = q'
    /\ chain' = <<q'>>
    /\ op' = "new"
    /\ UNCHANGED <<glam_assert, vec, slice, slice_addr, status>>

\* let q = Quat::identity();
Identity ==
    /\ status = "ok" /\ op = "start"
    /\ q' = identity
    /\ args' = <<>>
    /\ ret' = q'
    /\ chain' = <<q'>>
    /\ op' = "identity"
    /\ UNCHANGED <<glam_assert, vec, slice, slice_addr, status>>

\* Quat::from_slice_unaligned(&slice), on the caller's initial buffer or on
\* the buffer a write_to_slice_unaligned has just filled.
FromSliceUnaligned ==
    /\ status = "ok" /\ op \in {"start", "write_to_slice_unaligned"}
    /\ LET r == from_slice_unaligned(slice_addr, slice, glam_assert)
       IN  /\ status' = r.status
           /\ ret' = r.ret
    /\ args' = <<slice>>
    /\ op' = "from_slice_unaligned"
    /\ UNCHANGED <<glam_assert, q, vec, slice, slice_addr, chain>>

\* q.write_to_slice_unaligned(&mut slice);
WriteToSliceUnaligned ==
    /\ status = "ok" /\ Constructed
    /\ LET r == write_to_slice_unaligned(q, slice_addr, slice)
       IN  /\ status' = r.status
           /\ ret' = r.ret
           /\ slice' = r.slice
    /\ args' = <<q, slice>>
    /\ op' = "write_to_slice_unaligned"
    /\ UNCHANGED <<glam_assert, q, vec, slice_addr, chain>>

\* let a: [f32; 4] = q.into();
ToArray ==
    /\ status = "ok" /\ Constructed
    /\ \E junk \in SliceElems : ret' = Quat_into_array(q, junk)
    /\ args' = <<q>>
    /\ op' = "to_array"
    /\ UNCHANGED <<glam_assert, q, vec, slice, slice_addr, chain, status>>

\* let q2: Quat = a.into();   (a: the array just returned)
FromArray ==
    /\ status = "ok" /\ op = "to_array"
    /\ \E addr \in SliceAddrs : ret' = array_into_Quat(ret, addr)
    /\ args' = <<ret>>
    /\ op' = "from_array"
    /\ UNCHANGED <<glam_assert, q, vec, slice, slice_addr, chain, status>>

\* let t: (f32, f32, f32, f32) = q.into();
ToTuple ==
    /\ status = "ok" /\ Constructed
    /\ \E junk \in SliceElems : ret' = Quat_into_tuple(q, junk)
    /\ args' = <<q>>
    /\ op' = "to_tuple"
    /\ UNCHANGED <<glam_assert, q, vec, slice, slice_addr, chain, status>>

\* let q2: Quat = t.into();   (t: the tuple just returned)
FromTuple ==
    /\ status = "ok" /\ op = "to_tuple"
    /\ ret' = tuple_into_Quat(ret)
    /\ args' = <<ret>>
    /\ op' = "from_tuple"
    /\ UNCHANGED <<glam_assert, q, vec, slice, slice_addr, chain, status>>

\* let v: Vec4 = q.into();
ToVec4 ==
    /\ status = "ok" /\ Constructed
    /\ ret' = Quat_into_Vec4(q)
    /\ args' = <<q>>
    /\ op' = "to_vec4"
    /\ UNCHANGED <<glam_assert, q, vec, slice, slice_addr, chain, status>>

\* let q2: Quat = v.into();   (v: the Vec4 just returned)
FromVec4 ==
    /\ status = "ok" /\ op = "to_vec4"
    /\ ret' = Vec4_into_Quat(ret)
    /\ args' = <<ret>>
    /\ op' = "from_vec4"
    /\ UNCHANGED <<glam_assert, q, vec, slice, slice_addr, chain, status>>

\* q = q.mul_quat(Quat::new(x, y, z, w));
MulQuat ==
    /\ status = "ok" /\ Constructed
    /\ \E s \in ScalarArgs :
        LET rhs == new(s[1], s[2], s[3], s[4])
        IN  /\ q' = mul_quat(q, rhs)
            /\ args' = <<q, rhs>>
            /\ chain' = Append(chain, rhs)
    /\ ret' = q'
    /\ op' = "mul_quat"
    /\ UNCHANGED <<glam_assert, vec, slice, slice_addr, status>>

\* let r: Vec3 = q.mul_vec3(vec);
MulVec3 ==
    /\ status = "ok" /\ op \in {"new", "identity", "mul_quat"}
    /\ ret' = mul_vec3(q, vec)
    /\ args' = <<q, vec>>
    /\ op' = "mul_vec3"
    /\ UNCHANGED <<glam_assert, q, vec, slice, slice_addr, chain, status>>

Next ==
    \/ New
    \/ Identity
    \/ FromSliceUnaligned
    \/ WriteToSliceUnaligned
    \/ ToArray
    \/ FromArray
    \/ ToTuple
    \/ FromTuple
    \/ ToVec4
    \/ FromVec4

Spec == Init /\ [][Next]_vars

NextAlgebra ==
    \/ New
    \/ Identity
    \/ MulQuat
    \/ MulVec3

SpecAlgebra == InitAlgebra /\ [][NextAlgebra]_vars

\* ============================================================= properties

\* vocabulary of the properties
LaneX(a) == a.val[0]
LaneY(a) == a.val[1]
LaneZ(a) == a.val[2]
LaneW(a) == a.val[3]

NormSq(a) == LaneX(a) * LaneX(a) + LaneY(a) * LaneY(a)
                + LaneZ(a) * LaneZ(a) + LaneW(a) * LaneW(a)

LenSq(v) == v.val[1] * v.val[1] + v.val[2] * v.val[2] + v.val[3] * v.val[3]

\* the textbook Hamilton product, one scalar formula per component
Hamilton(q1, q2) ==
    LET x1 == LaneX(q1)  y1 == LaneY(q1)  z1 == LaneZ(q1)  w1 == LaneW(q1)
        x2 == LaneX(q2)  y2 == LaneY(q2)  z2 == LaneZ(q2)  w2 == LaneW(q2)
    IN  [ty |-> "Quat",
         val |-> [i \in 0..3 |->
            IF i = 0 THEN w1 * x2 + x1 * w2 + y1 * z2 - z1 * y2
            ELSE IF i = 1 THEN w1 * y2 + y1 * w2 + z1 * x2 - x1 * z2
            ELSE IF i = 2 THEN w1 * z2 + z1 * w2 + x1 * y2 - y1 * x2
            ELSE w1 * w2 - x1 * x2 - y1 * y2 - z1 * z2]]

\* the rotations of a chain applied one after another, rightmost first
RECURSIVE RotateRightToLeft(_, _)
RotateRightToLeft(c, v) ==
    IF c = <<>> THEN v ELSE mul_vec3(Head(c), RotateRightToLeft(Tail(c), v))

\* the slice argument of the last slice call
SliceArg == IF op = "from_slice_unaligned" THEN args[1] ELSE args[2]

SliceCall == op \in {"from_slice_unaligned", "write_to_slice_unaligned"}

\* from_slice_unaligned reading back what write_to_slice_unaligned stored
ReadBack == op = "from_slice_unaligned" /\ q.ty = "Quat"

\* C1: mul_quat returns the textbook Hamilton product of its operands, lane
\* by lane in the order (x, y, z, w); mul_quat((1,0,0,0), (0,1,0,0)) is
\* (0,0,1,0).
C1_MulQuatIsHamilton ==
    op = "mul_quat" =>
        /\ ret = Hamilton(args[1], args[2])
        /\ (args[1] = new(1, 0, 0, 0) /\ args[2] = new(0, 1, 0, 0)
                => ret = new(0, 0, 1, 0))

C1_Witness ==
    /\ op = "mul_quat"
    /\ args[1] = new(1, 0, 0, 0)
    /\ args[2] = new(0, 1, 0, 0)
    /\ ret = new(0, 0, 1, 0)

\* C2: identity() is (0,0,0,1), and multiplying a unit quaternion by it on
\* either side returns that quaternion lane by lane.
C2_IdentityNeutral ==
    /\ op = "identity" => ret = new(0, 0, 0, 1)
    /\ op = "mul_quat" /\ is_normalized(args[1]) /\ args[2] = identity
            => ret = args[1]
    /\ op = "mul_quat" /\ is_normalized(args[2]) /\ args[1] = identity
            => ret = args[2]

C2_Witness ==
    /\ op = "mul_quat"
    /\ args[1] = new(0, -1, 0, 0)
    /\ args[2] = identity
    /\ ret = new(0, -1, 0, 0)

\* C3: the squared length of mul_vec3(q, v) is the squared squared-norm of q
\* times the squared length of v, so a unit q preserves length; mul_vec3
\* never fails, whatever the norm of q.
C3_RotationScalesByNormSq ==
    op = "mul_vec3" =>
        /\ status = "ok"
        /\ ret.ty = "Vec3"
        /\ LenSq(ret) = NormSq(args[1]) * NormSq(args[1]) * LenSq(args[2])
        /\ (is_normalized(args[1]) => LenSq(ret) = LenSq(args[2]))

C3_Witness ==
    /\ op = "mul_vec3"
    /\ NormSq(args[1]) = 2
    /\ LenSq(args[2]) = 2
    /\ LenSq(ret) = 8

\* C4: from_slice_unaligned and write_to_slice_unaligned panic on every
\* slice shorter than 4; nothing is returned and the slice is untouched.
C4_ShortSlicePanics ==
    SliceCall /\ Len(SliceArg) < 4 =>
        /\ status = "panic"
        /\ ret = NoValue
        /\ slice = SliceArg

C4_Witness ==
    /\ op = "write_to_slice_unaligned"
    /\ Len(args[2]) = 3
    /\ args[1] = new(1, -1, 0, 0)
    /\ status = "panic"
    /\ slice = <<0, 1, 0>>

\* C5: on a slice of length n >= 4, write_to_slice_unaligned succeeds, sets
\* the first four elements to x, y, z, w, and leaves the elements after them
\* and the quaternion unchanged.
C5_WriteFrame ==
    op = "write_to_slice_unaligned" /\ Len(args[2]) >= 4 =>
        /\ status = "ok"
        /\ Len(slice) = Len(args[2])
        /\ slice[1] = LaneX(args[1]) /\ slice[2] = LaneY(args[1])
        /\ slice[3] = LaneZ(args[1]) /\ slice[4] = LaneW(args[1])
        /\ \A i \in 5..Len(slice) : slice[i] = args[2][i]
        /\ q = args[1]

C5_Witness ==
    /\ op = "write_to_slice_unaligned"
    /\ args[1] = new(0, 1, -1, 0)
    /\ args[2] = <<1, 0, 0, 0, 1>>
    /\ slice = <<0, 1, -1, 0, 1>>

\* C6: the array, tuple and Vec4 conversions never fail, keep the lane order
\* (x, y, z, w), and converting a quaternion out and back returns it.
C6_ConversionRoundTrip ==
    /\ op \in {"to_array", "from_array", "to_tuple", "from_tuple",
               "to_vec4", "from_vec4"} => status = "ok"
    /\ op = "to_array" =>
            ret = Array4(<<LaneX(q), LaneY(q), LaneZ(q), LaneW(q)>>)
    /\ op = "to_tuple" =>
            ret = Tuple4([f0 |-> LaneX(q), f1 |-> LaneY(q),
                          f2 |-> LaneZ(q), f3 |-> LaneW(q)])
    /\ op = "to_vec4" =>
            /\ ret.ty = "Vec4"
            /\ \A i \in 0..3 : ret.val[i] = q.val[i]
    /\ op \in {"from_array", "from_tuple", "from_vec4"} => ret = q

C6_Witness ==
    /\ op = "from_array"
    /\ args[1] = Array4(<<1, 0, -1, 0>>)
    /\ ret = new(1, 0, -1, 0)
    /\ q = ret

\* C7 as claimed: a quaternion written into a buffer of length 4 is read
\* back successfully and unchanged, whatever the buffer's alignment.
C7_SliceRoundTrip_Original ==
    ReadBack /\ Len(slice) = 4 =>
        /\ status = "ok"
        /\ ret = q

\* C7 as amended: the read-back succeeds and returns the quaternion when it
\* is of unit norm or glam_assert is compiled out, whatever the alignment.
C7_SliceRoundTrip ==
    ReadBack /\ Len(slice) = 4 /\ (is_normalized(q) \/ ~glam_assert) =>
        /\ status = "ok"
        /\ ret = q

C7_Witness ==
    /\ ReadBack
    /\ Len(slice) = 4
    /\ slice_addr = 4
    /\ glam_assert
    /\ q = new(0, -1, 0, 0)
    /\ ret = q

\* C8: only from_slice_unaligned checks the norm, and only with glam_assert
\* compiled in: a slice of length >= 4 that is not of unit norm then
\* panics, and without the assertion is returned as it is; new() never
\* fails and returns exactly its four arguments in either build.
C8_NormCheckedOnlyOnFromSlice ==
    /\ op = "from_slice_unaligned" /\ Len(args[1]) >= 4
         /\ ~is_normalized(Quat(mm_loadu_ps(0, args[1]))) =>
            IF glam_assert
            THEN status = "panic" /\ ret = NoValue
            ELSE /\ status = "ok"
                 /\ ret.ty = "Quat"
                 /\ \A i \in 0..3 : ret.val[i] = args[1][i + 1]
    /\ op = "new" =>
            /\ status = "ok"
            /\ ret.ty = "Quat"
            /\ LaneX(ret) = args[1] /\ LaneY(ret) = args[2]
            /\ LaneZ(ret) = args[3] /\ LaneW(ret) = args[4]
    /\ status = "panic" =>
            \/ SliceCall /\ Len(SliceArg) < 4
            \/ op = "from_slice_unaligned" /\ glam_assert

C8_Witness ==
    /\ op = "from_slice_unaligned"
    /\ glam_assert
    /\ args[1] = <<1, 1, 0, 0, 1>>
    /\ status = "panic"

\* C9: the identity quaternion rotates every vector to itself, and the unit
\* quaternion (0,0,1,0) rotates (1,0,0) to (-1,0,0).
C9_IdentityRotation ==
    op = "mul_vec3" =>
        /\ args[1] = identity => ret = args[2]
        /\ args[1] = new(0, 0, 1, 0) /\ args[2] = Vec3(1, 0, 0)
                => ret = Vec3(-1, 0, 0)

C9_Witness ==
    /\ op = "mul_vec3"
    /\ args[1] = identity
    /\ args[2] = Vec3(1, -1, 0)
    /\ ret = Vec3(1, -1, 0)

\* C10: rotating by a product of quaternions is rotating by each factor in
\* turn, the rightmost factor first.
C10_ComposeThenRotate ==
    op = "mul_vec3" /\ Len(chain) >= 2 =>
        ret = RotateRightToLeft(chain, vec)

\* a chain whose order matters
C10_Witness ==
    /\ op = "mul_vec3"
    /\ Len(chain) = 2
    /\ ret = mul_vec3(chain[1], mul_vec3(chain[2], vec))
    /\ ret # mul_vec3(chain[2], mul_vec3(chain[1], vec))

====
